---- MODULE Spec2Model ----
(***************************************************************************)
(* Model of estoque_sem_giro: the extraction orchestrator process_latest   *)
(* (pipeline.py), the extractors (extractor.py, excel_reader.py), the      *)
(* report writers (writers.py) and the archiver (archiver.py).             *)
(*                                                                         *)
(* A Python str is a sequence of one-character strings; None is the        *)
(* one-element sequence NoneV, which is no string of the alphabet.         *)
(***************************************************************************)
EXTENDS Integers, Sequences, FiniteSets, TLC

\* ------------------------------------------------------------------ bounds
MaxRows == 2
MaxRecs == 3
MaxDisc == 2

\* ------------------------------------------------------------ characters
Digits == {"0", "1", "2", "3", "4", "5", "6", "7", "8", "9"}

UpperSeq ==
    <<"A", "B", "C", "D", "E", "F", "G", "H", "I", "J", "K", "L", "M",
      "N", "O", "P", "Q", "R", "S", "T", "U", "V", "W", "X", "Y", "Z">>

LowerSeq ==
    <<"a", "b", "c", "d", "e", "f", "g", "h", "i", "j", "k", "l", "m",
      "n", "o", "p", "q", "r", "s", "t", "u", "v", "w", "x", "y", "z">>

\* c-cedilla and a-tilde of "descrição", written without non-ASCII text
CCedil == "c,"
ATilde == "a~"

Letters ==
    {UpperSeq[i] : i \in DOMAIN UpperSeq} \cup {LowerSeq[i] : i \in DOMAIN LowerSeq}
        \cup {CCedil, ATilde}

\* the characters of the model in ascending code point order
CharOrder ==
    <<" ", "-", ".">> \o <<"0", "1", "2", "3", "4", "5", "6", "7", "8", "9">>
        \o <<"=">> \o UpperSeq \o <<"_">> \o LowerSeq \o <<ATilde, CCedil>>

Ord(c) == CHOOSE i \in DOMAIN CharOrder : CharOrder[i] = c

Whitespace == {" "}

\* str.lower() on one character
LowerChar(c) ==
    IF \E i \in DOMAIN UpperSeq : UpperSeq[i] = c
    THEN LowerSeq[CHOOSE i \in DOMAIN UpperSeq : UpperSeq[i] = c]
    ELSE c

\* the regular expression class \w (letters, digits, underscore)
IsWordChar(c) == c \in Letters \cup Digits \cup {"_"}

\* ----------------------------------------------------------------- strings
Lower(s) == [i \in DOMAIN s |-> LowerChar(s[i])]

Strip(s) ==
    LET keep == {i \in DOMAIN s : s[i] \notin Whitespace}
    IN  IF keep = {} THEN <<>>
        ELSE SubSeq(s, CHOOSE i \in keep : \A j \in keep : i <= j,
                       CHOOSE i \in keep : \A j \in keep : j <= i)

EndsWith(s, suf) ==
    /\ Len(s) >= Len(suf)
    /\ SubSeq(s, Len(s) - Len(suf) + 1, Len(s)) = suf

\* Python's "sub in s"
Contains(s, sub) ==
    \E i \in 1..(Len(s) - Len(sub) + 1) : SubSeq(s, i, i + Len(sub) - 1) = sub

\* Python's s < t on str: lexicographic by code point
RECURSIVE StrLess(_, _)
StrLess(s, t) ==
    IF t = <<>> THEN FALSE
    ELSE IF s = <<>> THEN TRUE
    ELSE IF Head(s) = Head(t) THEN StrLess(Tail(s), Tail(t))
    ELSE Ord(Head(s)) < Ord(Head(t))

\* Python's sorted(xs, key=...): stable, ascending; lt[i][j] tells whether the
\* key of xs[i] is less than the key of xs[j]
SortedBy(xs, lt) ==
    LET n == Len(xs)
        Rank(i) == Cardinality({j \in 1..n : lt[j][i] \/ (~lt[i][j] /\ j < i)})
    IN  [k \in 1..n |-> xs[CHOOSE i \in 1..n : Rank(i) = k - 1]]

\* ------------------------------------------------------------ config.py
expected_sheets == <<"EUD", "BOT", "QDB">>

enable_fallback == TRUE

generate_by_pdv == TRUE

\* ------------------------------------------------------- string literals
NoneV == <<"<None>">>

s_nan == <<"n", "a", "n">>
s_none == <<"n", "o", "n", "e">>
s_dot0 == <<".", "0">>
s_SEM_PDV == <<"S", "E", "M", "_", "P", "D", "V">>
s_descontinuado ==
    <<"d", "e", "s", "c", "o", "n", "t", "i", "n", "u", "a", "d", "o">>

\* excel_reader._HEADER_TOKENS
_HEADER_TOKENS ==
    { <<"s", "k", "u">>,
      <<"d", "e", "s", "c", "r", "i", CCedil, ATilde, "o">>,
      <<"d", "e", "s", "c", "r", "i", "c", "a", "o">>,
      <<"c", "u", "r", "v", "a">>,
      <<"c", "l", "a", "s", "s", "e">>,
      <<"p", "d", "v">>,
      <<"e", "s", "t", "o", "q", "u", "e">>,
      <<"e", "s", "t", "o", "q", "u", "e", " ", "a", "t", "u", "a", "l">>,
      <<"e", "s", "t", "o", "q", "u", "e", "_", "a", "t", "u", "a", "l">> }

\* -------------------------------------------------------- excel_reader.py
\* _clean_str(v); v is None or the text str(v) of the cell value
_clean_str(v) ==
    IF v = NoneV THEN <<>>
    ELSE LET s == Strip(v)
         IN  IF Lower(s) \in {s_nan, s_none} THEN <<>>
             ELSE IF EndsWith(s, s_dot0) THEN SubSeq(s, 1, Len(s) - 2)
             ELSE s

looks_like_header(values) ==
    Cardinality({i \in DOMAIN values : Strip(Lower(values[i])) \in _HEADER_TOKENS}) >= 2

search_limit == 200

\* what load_workbook(data_only=...) shows of a cell: the cached value of a
\* formula (None when the file holds no cache) or its raw content
CellValue(cell, data_only) == IF data_only THEN cell.c ELSE cell.r

\* the worksheet of an open workbook: its rows as the values iter_rows yields
Worksheet(rows, data_only) ==
    [i \in DOMAIN rows |->
        [col \in DOMAIN rows[i] |-> CellValue(rows[i][col], data_only)]]

\* find_header_row(ws, cols=("A","C","E","I","J")); 0 stands for None
find_header_row(ws) ==
    LET max_row == Len(ws)
        max_row_scan == IF (IF max_row = 0 THEN 1 ELSE max_row) < search_limit
                        THEN (IF max_row = 0 THEN 1 ELSE max_row)
                        ELSE search_limit
        values(r) == <<_clean_str(ws[r].A), _clean_str(ws[r].C), _clean_str(ws[r].E),
                       _clean_str(ws[r].I), _clean_str(ws[r].J)>>
        hits == {r \in 1..max_row_scan : r <= max_row /\ looks_like_header(values(r))}
    IN  IF hits = {} THEN 0 ELSE CHOOSE r \in hits : \A q \in hits : r <= q

\* ------------------------------------------------------------ extractor.py
start_row_at_header(ws) ==
    LET header_row == find_header_row(ws)
    IN  IF header_row # 0 THEN header_row ELSE 1

\* lines 8-9: start_row = (header_row + 1) if header_row else 1
start_row(ws) ==
    LET header_row == find_header_row(ws)
    IN  IF header_row # 0 THEN header_row + 1 ELSE 1

row_valid_sku_only(sku, pdv) == sku # <<>>

\* lines 19 and 69: "if not sku or not pdv: continue", negated
row_valid(sku, pdv) == sku # <<>> /\ pdv # <<>>

\* one row of extract_sheet: the record it appends, as a sequence of 0 or 1
extract_row(row, marca) ==
    LET sku == _clean_str(row.A)
        desc == _clean_str(row.C)
        curva == _clean_str(row.E)
        pdv == _clean_str(row.I)
        est == _clean_str(row.J)
    IN  IF sku = <<>> /\ desc = <<>> /\ curva = <<>> /\ pdv = <<>> /\ est = <<>>
        THEN <<>>
        ELSE IF ~row_valid(sku, pdv) THEN <<>>
        ELSE << [PDV |-> pdv, SKU |-> sku, DESCRICAO |-> desc, MARCA |-> marca,
                 CURVA |-> curva, ESTOQUE_ATUAL |-> est] >>

\* the loop of extract_sheet over rows lo..hi: what each row appends, in row
\* order
RECURSIVE extract_rows_between(_, _, _, _)
extract_rows_between(ws, lo, hi, marca) ==
    IF lo > hi THEN <<>>
    ELSE IF lo = hi THEN extract_row(ws[lo], marca)
    ELSE extract_rows_between(ws, lo, (lo + hi) \div 2, marca)
            \o extract_rows_between(ws, (lo + hi) \div 2 + 1, hi, marca)

\* ws.iter_rows(min_row=r): the rows from r to the last one
extract_rows(ws, r, marca) == extract_rows_between(ws, r, Len(ws), marca)

extract_sheet(ws, marca) == extract_rows(ws, start_row(ws), marca)

fase_norm_cased(fase) == Strip(fase)

\* line 72: fase_norm = (fase or "").strip().lower()
fase_norm(fase) == Lower(Strip(fase))

\* one row of extract_discontinued_sheet
extract_discontinued_row(row, marca) ==
    LET sku == _clean_str(row.A)
        sku_p == _clean_str(row.B)
        desc == _clean_str(row.C)
        fase == _clean_str(row.F)
        pdv == _clean_str(row.I)
        est == _clean_str(row.J)
    IN  IF ~row_valid(sku, pdv) THEN <<>>
        ELSE IF ~Contains(fase_norm(fase), s_descontinuado) THEN <<>>
        ELSE << [PDV |-> pdv, SKU |-> sku, SKU_PARA |-> sku_p, DESCRICAO |-> desc,
                 ESTOQUE_ATUAL |-> est, FASES |-> fase, MARCA |-> marca] >>

RECURSIVE extract_discontinued_rows_between(_, _, _, _)
extract_discontinued_rows_between(ws, lo, hi, marca) ==
    IF lo > hi THEN <<>>
    ELSE IF lo = hi THEN extract_discontinued_row(ws[lo], marca)
    ELSE extract_discontinued_rows_between(ws, lo, (lo + hi) \div 2, marca)
            \o extract_discontinued_rows_between(ws, (lo + hi) \div 2 + 1, hi, marca)

extract_discontinued_rows(ws, r, marca) ==
    extract_discontinued_rows_between(ws, r, Len(ws), marca)

extract_discontinued_sheet_from_top(ws, marca) ==
    extract_discontinued_rows(ws, 1, marca)

extract_discontinued_sheet(ws, marca) ==
    extract_discontinued_rows(ws, start_row(ws), marca)

\* extract_all(wb, expected_sheets); wb maps its sheet names to worksheets
RECURSIVE extract_all_from(_, _)
extract_all_from(wb, k) ==
    IF k > Len(expected_sheets) THEN <<>>
    ELSE (IF expected_sheets[k] \in DOMAIN wb
          THEN extract_sheet(wb[expected_sheets[k]], expected_sheets[k])
          ELSE <<>>) \o extract_all_from(wb, k + 1)

extract_all(wb) == extract_all_from(wb, 1)

RECURSIVE extract_discontinued_all_from(_, _)
extract_discontinued_all_from(wb, k) ==
    IF k > Len(expected_sheets) THEN <<>>
    ELSE (IF expected_sheets[k] \in DOMAIN wb
          THEN extract_discontinued_sheet(wb[expected_sheets[k]], expected_sheets[k])
          ELSE <<>>) \o extract_discontinued_all_from(wb, k + 1)

extract_discontinued_all(wb) == extract_discontinued_all_from(wb, 1)

\* open_workbook(path, data_only) on a file whose sheets are book
open_workbook(book, data_only) ==
    [name \in DOMAIN book |-> Worksheet(book[name], data_only)]

\* --------------------------------------------------------------- writers.py
KeptWordOnly(c) == IsWordChar(c)

\* re.sub(r"[^\w\-]+", "_", v): every maximal run of other characters -> "_"
Kept(c) == IsWordChar(c) \/ c = "-"

RECURSIVE re_sub(_, _)
re_sub(v, inRun) ==
    IF v = <<>> THEN <<>>
    ELSE IF Kept(Head(v)) THEN <<Head(v)>> \o re_sub(Tail(v), FALSE)
    ELSE IF inRun THEN re_sub(Tail(v), TRUE)
    ELSE <<"_">> \o re_sub(Tail(v), TRUE)

\* sanitize_pdv(v), and the same two lines of the two CSV writers
sanitize_pdv(v) ==
    LET s == IF Strip(v) = <<>> THEN s_SEM_PDV ELSE Strip(v)
    IN  re_sub(s, FALSE)

PdvOnlyLess(a, b) == StrLess(a.PDV, b.PDV)

\* key=lambda r: (r.get("PDV",""), r.get("SKU","")), compared as tuples
PdvSkuLess(a, b) ==
    \/ StrLess(a.PDV, b.PDV)
    \/ (a.PDV = b.PDV /\ StrLess(a.SKU, b.SKU))

SkuDescending(a, b) == StrLess(b.SKU, a.SKU)

\* key=lambda r: (r.get("SKU", ""))
SkuLess(a, b) == StrLess(a.SKU, b.SKU)

KeyLess(a, b) == StrLess(a, b)

\* the rows write_consolidated_csv writes after the header
consolidated_rows(records) ==
    SortedBy(records, [i \in DOMAIN records |->
                         [j \in DOMAIN records |-> PdvSkuLess(records[i], records[j])]])

\* groups: the sanitized keys of the records, and the rows of one key
group_keys(records) == {sanitize_pdv(records[i].PDV) : i \in DOMAIN records}

group_rows(records, pdv) ==
    SelectSeq(records, LAMBDA rec : sanitize_pdv(rec.PDV) = pdv)

\* sorted(groups.items(), key=lambda kv: kv[0]) / sorted(set | set): the keys
\* are distinct strings, so their ascending order is unique
sorted_keys(keys) ==
    [k \in 1..Cardinality(keys) |->
        CHOOSE x \in keys : Cardinality({y \in keys : KeyLess(y, x)}) = k - 1]

\* sorted(rows, key=lambda r: r.get("SKU", ""))
rows_sorted(records, pdv) ==
    LET rows == group_rows(records, pdv)
    IN  SortedBy(rows, [i \in DOMAIN rows |->
                          [j \in DOMAIN rows |-> SkuLess(rows[i], rows[j])]])

all_pdvs_main_only(recs, disc) == sorted_keys(group_keys(recs))

\* line 118: all_pdvs = sorted(set(groups_main.keys()) | set(groups_disc.keys()))
all_pdvs(recs, disc) == sorted_keys(group_keys(recs) \cup group_keys(disc))

\* the paths the writers use, as <<kind, outlet key>>
consolidated_path == <<"consolidated_csv", <<>>>>

pdv_csv_path(pdv) == <<"pdv_csv", pdv>>

discontinued_csv_path(pdv) == <<"discontinued_csv", pdv>>

report_path(pdv) == <<"report_xlsx", pdv>>

tmp_path_direct(pdv) == report_path(pdv)

\* tmp = path.with_suffix(path.suffix + ".tmp")
tmp_path(pdv) == <<"report_xlsx_tmp", pdv>>

\* a file being written: created or truncated, its content not yet complete
file_open ==
    [st |-> "partial", rows |-> <<>>, drows |-> <<>>, sheets |-> {}, headers |-> {}]

csv_unflushed(rows) ==
    [st |-> "partial", rows |-> rows, drows |-> <<>>, sheets |-> {}, headers |-> {"csv"}]

\* a CSV after its "with path.open(...)" block: header and rows, closed
csv_written(rows) ==
    [st |-> "complete", rows |-> rows, drows |-> <<>>, sheets |-> {}, headers |-> {"csv"}]

\* a workbook after wb.save: both sheets, each with its header row (lines
\* 162-166 and 204-208 write it whatever the rows are) and its rows
report_saved(rows_main, rows_disc) ==
    [st |-> "complete", rows |-> rows_main, drows |-> rows_disc,
     sheets |-> {"Estoque sem Giro", "Descontinuados"},
     headers |-> {"Estoque sem Giro", "Descontinuados"}]

\* the file system after path is created or overwritten with file
Put(files, path, file) ==
    [p \in DOMAIN files \cup {path} |-> IF p = path THEN file ELSE files[p]]

\* os.replace(src, dst)
Replace(files, src, dst) ==
    [p \in (DOMAIN files \ {src}) \cup {dst} |-> IF p = dst THEN files[src] ELSE files[p]]

ensure_dirs_eager(made) == made \cup {"relatorio_finalizado"}

\* config.ensure_dirs: input_dir, output_dir and archive_dir themselves, none
\* of the dated sub-directories of output_dir
ensure_dirs(made) == made

\* ------------------------------------------------------------- pipeline.py
\* latest_excel: the last of the candidates sorted by (mtime, name); a file is
\* named by its place in that order, 0 stands for None
latest_excel(dir) == IF dir = {} THEN 0 ELSE CHOOSE f \in dir : \A g \in dir : g <= f

fallback_always(recs) == enable_fallback

\* line 81: if not records and cfg.enable_fallback
fallback_wanted(recs) == recs = <<>> /\ enable_fallback

pass2_cached == TRUE

\* the data_only argument of the second open_workbook call
pass2_data_only == FALSE

no_records_never(recs) == FALSE

\* line 95: if not records
no_records(recs) == recs = <<>>

archive_return_strict(moved) == IF moved THEN "True" ELSE "False"

\* lines 124-130: an exception of archive_xlsx is logged, then return True
archive_return(moved) == "True"

close_skipped(h) == h

\* wb.close(), any exception of it swallowed
close(h) == "closed"

\* --------------------------------------------------------------- inputs
Lit(s) == [c |-> s, r |-> s]

\* a formula cell: its cached value and its formula text
Formula(cached, text) == [c |-> cached, r |-> text]

Blank == Lit(NoneV)

BlankRow == [A |-> Blank, B |-> Blank, C |-> Blank, E |-> Blank, F |-> Blank,
             I |-> Blank, J |-> Blank]

s_Loja_sp_01 == <<"L", "o", "j", "a", " ", "0", "1">>
s_Loja_hy_01 == <<"L", "o", "j", "a", "-", "0", "1">>
s_Loja_us_01 == <<"L", "o", "j", "a", "_", "0", "1">>

HeaderRow ==
    [BlankRow EXCEPT !.A = Lit(<<"S", "K", "U">>), !.I = Lit(<<"P", "D", "V">>)]

ActiveRow ==
    [BlankRow EXCEPT !.A = Lit(<<"2">>), !.E = Lit(<<"A">>),
                     !.F = Lit(<<"A", "t", "i", "v", "o">>),
                     !.I = Lit(s_Loja_sp_01), !.J = Lit(<<"5", ".", "0">>)]

DiscontinuedRow ==
    [BlankRow EXCEPT !.A = Lit(<<"1">>), !.B = Lit(<<"3">>),
                     !.F = Lit(<<" ", "D", "e", "s", "c", "o", "n", "t", "i", "n",
                                 "u", "a", "d", "o", " ">>),
                     !.I = Lit(s_Loja_hy_01)]

\* a row of formulas saved without cached values
FormulaRow ==
    [BlankRow EXCEPT !.A = Formula(NoneV, <<"=", "A", "1">>),
                     !.F = Lit(<<"D", "E", "S", "C", "O", "N", "T", "I", "N", "U",
                                 "A", "D", "O">>),
                     !.I = Formula(NoneV, <<"=", "I", "1">>)]

RowChoices == {HeaderRow, ActiveRow, DiscontinuedRow, FormulaRow}

SeqsUpTo(S, n) == UNION {[1..k -> S] : k \in 0..n}

RECURSIVE TotalRowsFrom(_, _)
TotalRowsFrom(b, k) ==
    IF k > Len(expected_sheets) THEN 0
    ELSE (IF expected_sheets[k] \in DOMAIN b THEN Len(b[expected_sheets[k]]) ELSE 0)
            + TotalRowsFrom(b, k + 1)

\* the workbooks of the model: any of the expected sheets, MaxRows rows in all
Books ==
    UNION { {b \in [names -> SeqsUpTo(RowChoices, MaxRows)] : TotalRowsFrom(b, 1) <= MaxRows}
            : names \in SUBSET {expected_sheets[k] : k \in DOMAIN expected_sheets} }

Files == {1, 2}

\* more rows for a sheet read on its own
SkuOnlyRow ==
    [BlankRow EXCEPT !.A = Lit(<<"7">>), !.C = Lit(<<"x">>),
                     !.I = Lit(<<"N", "a", "N">>)]

PdvOnlyRow ==
    [BlankRow EXCEPT !.A = Lit(<<" ">>),
                     !.F = Lit(<<"D", "e", "s", "c", "o", "n", "t", "i", "n", "u",
                                 "a", "d", "o">>),
                     !.I = Lit(s_Loja_hy_01)]

\* one header word only: not a header
OneTokenRow ==
    [BlankRow EXCEPT !.A = Lit(<<"S", "K", "U">>), !.I = Lit(s_Loja_sp_01)]

\* header words in columns C and E, with spaces and capitals
HeaderRowCE ==
    [BlankRow EXCEPT !.C = Lit(<<" ", "D", "e", "s", "c", "r", "i", "c", "a", "o", " ">>),
                     !.E = Lit(<<"C", "U", "R", "V", "A">>)]

\* the marker inside a longer phase text
PhaseTextRow ==
    [BlankRow EXCEPT !.A = Lit(<<"4">>), !.B = Lit(<<"9">>),
                     !.F = Lit(<<"E", "m", " ", "D", "E", "S", "C", "O", "N", "T", "I",
                                 "N", "U", "A", "D", "O">>),
                     !.I = Lit(<<"B">>)]

SheetRowChoices ==
    RowChoices \cup {BlankRow, SkuOnlyRow, PdvOnlyRow, OneTokenRow, HeaderRowCE,
                     PhaseTextRow}

\* n empty rows above the rows of interest
PadRows(n) == [i \in 1..n |-> BlankRow]

\* workbooks of one expected sheet: short ones under any of the names, and
\* ones whose rows of interest start at the end of find_header_row's window
SheetBooks ==
    { [name \in {v[1]} |-> PadRows(v[2]) \o tail] :
        v \in ({expected_sheets[k] : k \in DOMAIN expected_sheets} \X {0})
                \cup ({expected_sheets[1]} \X {search_limit - 1}),
        tail \in SeqsUpTo(SheetRowChoices, MaxRows) }

Rec(pdv, sku, marca) ==
    [PDV |-> pdv, SKU |-> sku, DESCRICAO |-> <<>>, MARCA |-> marca,
     CURVA |-> <<>>, ESTOQUE_ATUAL |-> <<>>]

DiscRec(pdv, sku, marca) ==
    [PDV |-> pdv, SKU |-> sku, SKU_PARA |-> <<>>, DESCRICAO |-> <<>>,
     ESTOQUE_ATUAL |-> <<>>, FASES |-> s_descontinuado, MARCA |-> marca]

\* the records a caller may hand to the writers
RecChoices ==
    { Rec(s_Loja_sp_01, <<"2">>, "EUD"), Rec(s_Loja_sp_01, <<"2">>, "BOT"),
      Rec(s_Loja_sp_01, <<"1", "0">>, "EUD"), Rec(s_Loja_hy_01, <<"1">>, "EUD"),
      Rec(s_Loja_us_01, <<"1">>, "BOT"), Rec(<<" ">>, <<"1">>, "QDB") }

DiscChoices ==
    { DiscRec(s_Loja_hy_01, <<"2">>, "EUD"), DiscRec(<<"B">>, <<"1">>, "BOT"),
      DiscRec(s_Loja_hy_01, <<"1", "0">>, "BOT") }

\* ------------------------------------------------------------------ state
VARIABLES
    inputDir,       \* the .xlsx candidates in cfg.input_dir
    book,           \* the sheets of the latest candidate
    caller,         \* "pipeline": process_latest runs; "direct": a writer is called
    pc,             \* the statement about to run
    alive,          \* FALSE once the process was interrupted
    xlsx,           \* process_latest's xlsx
    wb, wb2,        \* the two workbook handles: "none", "open", "closed"
    records, discontinued,
    opens,          \* the data_only argument of every open_workbook call so far
    err,            \* where the fallback's try block raised: "none", "open", ...
    todo,           \* the keys a writer's loop has still to write
    fs,             \* the files under cfg.output_dir: path -> file
    dirs,           \* the sub-directories of cfg.output_dir
    archived,       \* the files moved to cfg.archive_dir
    archiveCalled,  \* whether archive_xlsx was called in this run
    ret,            \* process_latest's return value: "none", "True", "False"
    outcome,        \* how the run ended
    prev            \* <<outcome, ret>> of the run before this one

vars == <<inputDir, book, caller, pc, alive, xlsx, wb, wb2, records, discontinued,
          opens, err, todo, fs, dirs, archived, archiveCalled, ret, outcome,
          prev>>

procVars == <<xlsx, wb, wb2, records, discontinued, opens, err>>

outVars == <<todo, fs, dirs>>

\* the state a run of process_latest starts in
Fresh ==
    /\ inputDir \in SUBSET Files
    /\ book \in Books
    /\ caller = "pipeline"
    /\ pc = "locate"
    /\ alive = TRUE
    /\ xlsx = 0
    /\ wb = "none"
    /\ wb2 = "none"
    /\ records = <<>>
    /\ discontinued = <<>>
    /\ opens = <<>>
    /\ err = "none"
    /\ todo = <<>>
    /\ fs = <<>>
    /\ dirs = {}
    /\ archived = {}
    /\ archiveCalled = FALSE
    /\ ret = "none"
    /\ outcome = "none"

Init == Fresh /\ prev = <<"none", "none">>

\* return at lines 46, 55, 99, 130 and an exception leaving process_latest
Return(value, how) ==
    /\ ret' = value
    /\ outcome' = how
    /\ pc' = "done"

\* lines 37-46: ensure_dirs, latest_excel
Locate ==
    /\ alive /\ pc = "locate"
    /\ xlsx' = latest_excel(inputDir)
    /\ IF latest_excel(inputDir) = 0
       THEN Return("False", "no_input")
       ELSE pc' = "open1" /\ UNCHANGED <<ret, outcome>>
    /\ dirs' = ensure_dirs(dirs)
    /\ UNCHANGED <<inputDir, book, caller, alive, wb, wb2, records, discontinued,
                   opens, err, todo, fs, archived, archiveCalled, prev>>

\* lines 50-70: open_workbook(xlsx, data_only=True); the previews only log
Open1 ==
    /\ alive /\ pc = "open1"
    /\ opens' = Append(opens, TRUE)
    /\ \E ok \in BOOLEAN :
          IF ok
          THEN wb' = "open" /\ pc' = "extract1" /\ UNCHANGED <<ret, outcome>>
          ELSE wb' = wb /\ Return("False", "open_failure")
    /\ UNCHANGED <<inputDir, book, caller, alive, xlsx, wb2, records, discontinued,
                   err, archived, archiveCalled, prev>>
    /\ UNCHANGED outVars

\* line 72: records = extract_all(wb, ...); an exception leaves process_latest
Extract1 ==
    /\ alive /\ pc = "extract1"
    /\ \E raised \in BOOLEAN :
          IF raised
          THEN records' = records /\ Return("none", "exception")
          ELSE /\ records' = extract_all(open_workbook(book, TRUE))
               /\ pc' = "extract_disc1"
               /\ UNCHANGED <<ret, outcome>>
    /\ UNCHANGED <<inputDir, book, caller, alive, xlsx, wb, wb2, discontinued,
                   opens, err, archived, archiveCalled, prev>>
    /\ UNCHANGED outVars

\* line 74: discontinued = extract_discontinued_all(wb, ...)
ExtractDisc1 ==
    /\ alive /\ pc = "extract_disc1"
    /\ \E raised \in BOOLEAN :
          IF raised
          THEN discontinued' = discontinued /\ Return("none", "exception")
          ELSE /\ discontinued' = extract_discontinued_all(open_workbook(book, TRUE))
               /\ pc' = "close1"
               /\ UNCHANGED <<ret, outcome>>
    /\ UNCHANGED <<inputDir, book, caller, alive, xlsx, wb, wb2, records,
                   opens, err, archived, archiveCalled, prev>>
    /\ UNCHANGED outVars

\* lines 75-82: wb.close(), then the fallback's condition
Close1 ==
    /\ alive /\ pc = "close1"
    /\ wb' = close(wb)
    /\ pc' = IF fallback_wanted(records) THEN "open2" ELSE "check"
    /\ UNCHANGED <<inputDir, book, caller, alive, xlsx, wb2, records, discontinued,
                   opens, err, archived, archiveCalled, ret, outcome, prev>>
    /\ UNCHANGED outVars

\* lines 83-84, 92-93: wb2 = open_workbook(xlsx, data_only=False)
Open2 ==
    /\ alive /\ pc = "open2"
    /\ opens' = Append(opens, pass2_data_only)
    /\ \E ok \in BOOLEAN :
          IF ok
          THEN wb2' = "open" /\ pc' = "extract2" /\ err' = err
          ELSE wb2' = wb2 /\ pc' = "check" /\ err' = "open"
    /\ UNCHANGED <<inputDir, book, caller, alive, xlsx, wb, records, discontinued,
                   archived, archiveCalled, ret, outcome, prev>>
    /\ UNCHANGED outVars

\* lines 85, 92-93: records = extract_all(wb2, ...)
Extract2 ==
    /\ alive /\ pc = "extract2"
    /\ \E raised \in BOOLEAN :
          IF raised
          THEN records' = records /\ pc' = "check" /\ err' = "extract"
          ELSE /\ records' = extract_all(open_workbook(book, pass2_data_only))
               /\ pc' = "extract_disc2"
               /\ err' = err
    /\ UNCHANGED <<inputDir, book, caller, alive, xlsx, wb, wb2, discontinued,
                   opens, archived, archiveCalled, ret, outcome, prev>>
    /\ UNCHANGED outVars

\* lines 87, 92-93: discontinued = extract_discontinued_all(wb2, ...)
ExtractDisc2 ==
    /\ alive /\ pc = "extract_disc2"
    /\ \E raised \in BOOLEAN :
          IF raised
          THEN discontinued' = discontinued /\ pc' = "check" /\ err' = "discontinued"
          ELSE /\ discontinued' =
                    extract_discontinued_all(open_workbook(book, pass2_data_only))
               /\ pc' = "close2"
               /\ err' = err
    /\ UNCHANGED <<inputDir, book, caller, alive, xlsx, wb, wb2, records,
                   opens, archived, archiveCalled, ret, outcome, prev>>
    /\ UNCHANGED outVars

\* lines 88-91: wb2.close()
Close2 ==
    /\ alive /\ pc = "close2"
    /\ wb2' = close(wb2)
    /\ pc' = "check"
    /\ UNCHANGED <<inputDir, book, caller, alive, xlsx, wb, records, discontinued,
                   opens, err, archived, archiveCalled, ret, outcome, prev>>
    /\ UNCHANGED outVars

\* lines 95-99: if not records: return False
Check ==
    /\ alive /\ pc = "check"
    /\ IF no_records(records)
       THEN Return("False", "exhausted")
       ELSE pc' = "w_cons" /\ UNCHANGED <<ret, outcome>>
    /\ UNCHANGED <<inputDir, book, caller, alive, archived, archiveCalled, prev>>
    /\ UNCHANGED procVars
    /\ UNCHANGED outVars

\* where control goes when a writer returns
AfterConsolidated ==
    IF caller = "pipeline" THEN (IF generate_by_pdv THEN "w_pdv" ELSE "w_xlsx")
    ELSE "returned"

AfterByPdv == IF caller = "pipeline" THEN "w_xlsx" ELSE "returned"

AfterReportsThenByPdv == IF caller = "pipeline" THEN "w_pdv" ELSE "returned"

\* pipeline.py lines 114-122: if discontinued: write_discontinued_csvs_by_pdv
AfterReports ==
    IF caller = "pipeline" THEN (IF discontinued # <<>> THEN "w_disc" ELSE "archive")
    ELSE "returned"

AfterDiscontinued == IF caller = "pipeline" THEN "archive" ELSE "returned"

\* write_consolidated_csv, lines 12-17: the check, then out.open("w")
WriteConsolidatedOpen ==
    /\ alive /\ pc = "w_cons"
    /\ IF records = <<>>
       THEN Return("none", "exception") /\ fs' = fs
       ELSE /\ fs' = Put(fs, consolidated_path, file_open)
            /\ pc' = "w_cons_body"
            /\ UNCHANGED <<ret, outcome>>
    /\ UNCHANGED <<inputDir, book, caller, alive, todo, dirs, archived, archiveCalled, prev>>
    /\ UNCHANGED procVars

\* write_consolidated_csv, lines 18-22: header and rows, the file closed
WriteConsolidatedBody ==
    /\ alive /\ pc = "w_cons_body"
    /\ fs' = Put(fs, consolidated_path, csv_written(consolidated_rows(records)))
    /\ pc' = AfterConsolidated
    /\ UNCHANGED <<inputDir, book, caller, alive, todo, dirs, archived, archiveCalled, ret, outcome, prev>>
    /\ UNCHANGED procVars

\* write_csvs_by_pdv, lines 25-38: the folder and the groups
WriteCsvsByPdvStart ==
    /\ alive /\ pc = "w_pdv"
    /\ IF records = <<>>
       THEN pc' = AfterByPdv /\ UNCHANGED <<todo, dirs>>
       ELSE /\ dirs' = dirs \cup {"por_pdv"}
            /\ todo' = sorted_keys(group_keys(records))
            /\ pc' = "w_pdv_open"
    /\ UNCHANGED <<inputDir, book, caller, alive, fs, archived, archiveCalled, ret, outcome, prev>>
    /\ UNCHANGED procVars

\* write_csvs_by_pdv, lines 39-41: path.open("w") of the next group
WriteCsvsByPdvOpen ==
    /\ alive /\ pc = "w_pdv_open"
    /\ fs' = Put(fs, pdv_csv_path(Head(todo)), file_open)
    /\ pc' = "w_pdv_body"
    /\ UNCHANGED <<inputDir, book, caller, alive, todo, dirs, archived, archiveCalled, ret, outcome, prev>>
    /\ UNCHANGED procVars

\* write_csvs_by_pdv, lines 42-47: the group's rows, the file closed
WriteCsvsByPdvBody ==
    /\ alive /\ pc = "w_pdv_body"
    /\ fs' = Put(fs, pdv_csv_path(Head(todo)), csv_written(rows_sorted(records, Head(todo))))
    /\ todo' = Tail(todo)
    /\ pc' = IF Tail(todo) = <<>> THEN AfterByPdv ELSE "w_pdv_open"
    /\ UNCHANGED <<inputDir, book, caller, alive, dirs, archived, archiveCalled, ret, outcome, prev>>
    /\ UNCHANGED procVars

\* write_reports_xlsx_by_pdv, lines 67-118: the folder and all_pdvs
WriteReportsStart ==
    /\ alive /\ pc = "w_xlsx"
    /\ dirs' = dirs \cup {"relatorio_finalizado"}
    /\ todo' = all_pdvs(records, discontinued)
    /\ pc' = IF all_pdvs(records, discontinued) = <<>>
             THEN AfterReports ELSE "w_xlsx_save"
    /\ UNCHANGED <<inputDir, book, caller, alive, fs, archived, archiveCalled, ret, outcome, prev>>
    /\ UNCHANGED procVars

\* lines 137-222: the workbook is built; wb.save(tmp) starts writing tmp
WriteReportsSaveBegin ==
    /\ alive /\ pc = "w_xlsx_save"
    /\ fs' = Put(fs, tmp_path(Head(todo)), file_open)
    /\ pc' = "w_xlsx_saving"
    /\ UNCHANGED <<inputDir, book, caller, alive, todo, dirs, archived, archiveCalled, ret, outcome, prev>>
    /\ UNCHANGED procVars

\* line 222: wb.save(tmp) returns, tmp is complete
WriteReportsSaveEnd ==
    /\ alive /\ pc = "w_xlsx_saving"
    /\ fs' = Put(fs, tmp_path(Head(todo)),
                 report_saved(rows_sorted(records, Head(todo)),
                              rows_sorted(discontinued, Head(todo))))
    /\ pc' = "w_xlsx_replace"
    /\ UNCHANGED <<inputDir, book, caller, alive, todo, dirs, archived, archiveCalled, ret, outcome, prev>>
    /\ UNCHANGED procVars

\* lines 223-224: os.replace(tmp, path)
WriteReportsReplace ==
    /\ alive /\ pc = "w_xlsx_replace"
    /\ fs' = Replace(fs, tmp_path(Head(todo)), report_path(Head(todo)))
    /\ todo' = Tail(todo)
    /\ pc' = IF Tail(todo) = <<>> THEN AfterReports ELSE "w_xlsx_save"
    /\ UNCHANGED <<inputDir, book, caller, alive, dirs, archived, archiveCalled, ret, outcome, prev>>
    /\ UNCHANGED procVars

\* write_discontinued_csvs_by_pdv, lines 238-254
WriteDiscontinuedStart ==
    /\ alive /\ pc = "w_disc"
    /\ IF discontinued = <<>>
       THEN pc' = AfterDiscontinued /\ UNCHANGED <<todo, dirs>>
       ELSE /\ dirs' = dirs \cup {"descontinuados"}
            /\ todo' = sorted_keys(group_keys(discontinued))
            /\ pc' = "w_disc_open"
    /\ UNCHANGED <<inputDir, book, caller, alive, fs, archived, archiveCalled, ret, outcome, prev>>
    /\ UNCHANGED procVars

\* write_discontinued_csvs_by_pdv, lines 255-257
WriteDiscontinuedOpen ==
    /\ alive /\ pc = "w_disc_open"
    /\ fs' = Put(fs, discontinued_csv_path(Head(todo)), file_open)
    /\ pc' = "w_disc_body"
    /\ UNCHANGED <<inputDir, book, caller, alive, todo, dirs, archived, archiveCalled, ret, outcome, prev>>
    /\ UNCHANGED procVars

\* write_discontinued_csvs_by_pdv, lines 258-264
WriteDiscontinuedBody ==
    /\ alive /\ pc = "w_disc_body"
    /\ fs' = Put(fs, discontinued_csv_path(Head(todo)),
                 csv_written(rows_sorted(discontinued, Head(todo))))
    /\ todo' = Tail(todo)
    /\ pc' = IF Tail(todo) = <<>> THEN AfterDiscontinued ELSE "w_disc_open"
    /\ UNCHANGED <<inputDir, book, caller, alive, dirs, archived, archiveCalled, ret, outcome, prev>>
    /\ UNCHANGED procVars

\* pipeline.py lines 124-130 and archiver.py: shutil.move, which may fail
Archive ==
    /\ alive /\ pc = "archive"
    /\ \E moved \in BOOLEAN :
          /\ IF moved
             THEN inputDir' = inputDir \ {xlsx} /\ archived' = archived \cup {xlsx}
             ELSE UNCHANGED <<inputDir, archived>>
          /\ Return(archive_return(moved), "success")
    /\ archiveCalled' = TRUE
    /\ UNCHANGED <<book, caller, alive, prev>>
    /\ UNCHANGED procVars
    /\ UNCHANGED outVars

\* the process is killed between two steps
Interrupt ==
    /\ alive /\ pc \notin {"done", "returned"}
    /\ alive' = FALSE
    /\ UNCHANGED <<inputDir, book, caller, pc, archived, archiveCalled, ret, outcome, prev>>
    /\ UNCHANGED procVars
    /\ UNCHANGED outVars

\* cli.main is started again after a run ended: the input directory holds any
\* of the candidates again, the newest an export of the same sheets
NewRun ==
    /\ alive /\ pc = "done"
    /\ prev' = <<outcome, ret>>
    /\ inputDir' \in SUBSET Files
    /\ book' = book
    /\ caller' = "pipeline"
    /\ pc' = "locate"
    /\ alive' = TRUE
    /\ xlsx' = 0
    /\ wb' = "none"
    /\ wb2' = "none"
    /\ records' = <<>>
    /\ discontinued' = <<>>
    /\ opens' = <<>>
    /\ err' = "none"
    /\ todo' = <<>>
    /\ fs' = <<>>
    /\ dirs' = {}
    /\ archived' = {}
    /\ archiveCalled' = FALSE
    /\ ret' = "none"
    /\ outcome' = "none"

Extractors ==
    \/ Locate \/ Open1 \/ Extract1 \/ ExtractDisc1 \/ Close1
    \/ Open2 \/ Extract2 \/ ExtractDisc2 \/ Close2 \/ Check

Writers ==
    \/ WriteConsolidatedOpen \/ WriteConsolidatedBody
    \/ WriteCsvsByPdvStart \/ WriteCsvsByPdvOpen \/ WriteCsvsByPdvBody
    \/ WriteReportsStart \/ WriteReportsSaveBegin \/ WriteReportsSaveEnd
    \/ WriteReportsReplace
    \/ WriteDiscontinuedStart \/ WriteDiscontinuedOpen \/ WriteDiscontinuedBody

Next == Extractors \/ Writers \/ Archive \/ Interrupt

\* one run of process_latest
Spec == Init /\ [][Next]_vars

\* runs of process_latest one after the other
SpecRuns == Init /\ [][Next \/ NewRun]_vars

\* a writer of writers.py called with records of the caller's choice; the
\* list a writer does not take is left empty
InitEmit ==
    /\ inputDir = {}
    /\ book = <<>>
    /\ caller = "direct"
    /\ pc \in {"w_cons", "w_pdv", "w_xlsx", "w_disc"}
    /\ alive = TRUE
    /\ xlsx = 0
    /\ wb = "none"
    /\ wb2 = "none"
    /\ records \in IF pc = "w_disc" THEN {<<>>} ELSE SeqsUpTo(RecChoices, MaxRecs)
    /\ discontinued \in IF pc \in {"w_cons", "w_pdv"} THEN {<<>>}
                        ELSE SeqsUpTo(DiscChoices, MaxDisc)
    /\ opens = <<>>
    /\ err = "none"
    /\ todo = <<>>
    /\ fs = <<>>
    /\ dirs = {}
    /\ archived = {}
    /\ archiveCalled = FALSE
    /\ ret = "none"
    /\ outcome = "none"
    /\ prev = <<"none", "none">>

SpecEmit == InitEmit /\ [][Writers \/ Interrupt]_vars

\* the writers as process_latest calls them and as any other caller may
SpecCalls == (Init \/ InitEmit) /\ [][Next]_vars

\* process_latest up to line 99 on a workbook of one sheet
InitExtract ==
    /\ inputDir = {1}
    /\ book \in SheetBooks
    /\ caller = "pipeline"
    /\ pc = "locate"
    /\ alive = TRUE
    /\ xlsx = 0
    /\ wb = "none"
    /\ wb2 = "none"
    /\ records = <<>>
    /\ discontinued = <<>>
    /\ opens = <<>>
    /\ err = "none"
    /\ todo = <<>>
    /\ fs = <<>>
    /\ dirs = {}
    /\ archived = {}
    /\ archiveCalled = FALSE
    /\ ret = "none"
    /\ outcome = "none"
    /\ prev = <<"none", "none">>

SpecExtract == InitExtract /\ [][Extractors]_vars

\* ------------------------------------------------------------------ claims
\* what each pass extracts from the selected workbook when it runs to its end
Pass1Active == extract_all(open_workbook(book, TRUE))

Pass1Discontinued == extract_discontinued_all(open_workbook(book, TRUE))

Pass2Active == extract_all(open_workbook(book, FALSE))

Count(s, x) == Cardinality({i \in DOMAIN s : s[i] = x})

\* s and t hold the same elements, each as often
SameElements(s, t) ==
    /\ Len(s) = Len(t)
    /\ \A i \in DOMAIN s : Count(s, s[i]) = Count(t, s[i])

EmissionPcs ==
    {"w_cons", "w_cons_body", "w_pdv", "w_pdv_open", "w_pdv_body", "w_xlsx",
     "w_xlsx_save", "w_xlsx_saving", "w_xlsx_replace", "w_disc", "w_disc_open",
     "w_disc_body", "archive"}

\* C1: the workbook is opened at most twice, first for cached values and then
\* for raw values; the second open happens only in a run whose first pass
\* extracted no active record; and once the first pass has extracted at least
\* one active record the run keeps those records, never starts the fallback
\* and goes on to emission and success, whatever the discontinued list holds.
C1_FallbackOnlyWhenEmpty ==
    /\ Len(opens) <= 2
    /\ (Len(opens) >= 1 => opens[1] = TRUE)
    /\ (Len(opens) = 2 => opens[2] = FALSE /\ Pass1Active = <<>>)
    /\ (wb2 # "none" => Pass1Active = <<>>)
    /\ (wb = "closed" /\ Pass1Active # <<>>
            => /\ opens = <<TRUE>>
               /\ records = Pass1Active
               /\ pc \in EmissionPcs \cup {"check", "done"}
               /\ (pc = "done" => outcome = "success" /\ ret = "True"))

\* a run in emission whose first pass gave active records and no discontinued
\* record
C1_Witness ==
    /\ pc = "w_cons_body"
    /\ Pass1Active # <<>>
    /\ Pass1Discontinued = <<>>
    /\ discontinued = <<>>
    /\ opens = <<TRUE>>

\* C2: a run whose cached-value pass extracted no active record and whose
\* raw-value pass extracted N > 0 ends in success, with exactly those N records
\* in the consolidated file.
C2_FallbackRecovers ==
    (/\ pc = "done"
     /\ wb = "closed"
     /\ Pass1Active = <<>>
     /\ Pass2Active # <<>>
     /\ err \notin {"open", "extract"})
        => /\ outcome = "success"
           /\ ret = "True"
           /\ records = Pass2Active
           /\ consolidated_path \in DOMAIN fs
           /\ fs[consolidated_path].st = "complete"
           /\ SameElements(fs[consolidated_path].rows, Pass2Active)

\* a successful run that needed the raw-value pass
C2_Witness ==
    /\ pc = "done"
    /\ ret = "True"
    /\ opens = <<TRUE, FALSE>>
    /\ Pass1Active = <<>>
    /\ Len(Pass2Active) > 0
    /\ Len(fs[consolidated_path].rows) = Len(Pass2Active)

Failures == {"no_input", "open_failure", "exhausted"}

\* C3: a run that ends in one of the three failures has written no file and
\* made no sub-directory under the output directory, has not called
\* archive_xlsx, and leaves the selected input file where it was.
C3_FailureWritesNothing ==
    (pc = "done" /\ outcome \in Failures)
        => /\ ret = "False"
           /\ fs = <<>>
           /\ dirs = {}
           /\ ~archiveCalled
           /\ archived = {}
           /\ (xlsx # 0 => xlsx \in inputDir)

\* the failure after both passes: the workbook was opened twice, no records
C3_Witness ==
    /\ pc = "done"
    /\ outcome = "exhausted"
    /\ opens = <<TRUE, FALSE>>
    /\ xlsx \in inputDir
    /\ fs = <<>>

\* C5: when a run has ended, by return or by an exception, neither workbook
\* handle is open.
C5_HandlesReleased ==
    (pc = "done" /\ alive) => (wb # "open" /\ wb2 # "open")

\* C6: the two workbook handles are never open together; the second one exists
\* only after the first one was closed.
C6_OneHandleAtATime ==
    /\ ~(wb = "open" /\ wb2 = "open")
    /\ (wb2 # "none" => wb = "closed")

\* the second pass holds its handle, the first one is closed
C6_Witness == wb2 = "open" /\ wb = "closed" /\ pc = "extract2"

Outcomes == {"success", "no_input", "open_failure", "exhausted"}

\* C4: two runs that ended in different ones of the four outcomes returned
\* different results to the caller.
C4_OutcomesDistinguishable ==
    (/\ pc = "done"
     /\ outcome \in Outcomes
     /\ prev[1] \in Outcomes
     /\ outcome # prev[1])
        => ret # prev[2]

\* C7: no final path of a per-outlet workbook ever holds a partially written
\* file: what is there is a whole workbook with both sheets; and a process
\* interrupted between wb.save(tmp) and os.replace leaves the complete
\* temporary file and nothing at the final path of that outlet.
C7_ReportsAtomic ==
    /\ \A p \in DOMAIN fs :
          p[1] = "report_xlsx"
            => /\ fs[p].st = "complete"
               /\ fs[p].sheets = {"Estoque sem Giro", "Descontinuados"}
    /\ (pc = "w_xlsx_replace"
            => /\ <<"report_xlsx_tmp", Head(todo)>> \in DOMAIN fs
               /\ fs[<<"report_xlsx_tmp", Head(todo)>>].st = "complete"
               /\ <<"report_xlsx", Head(todo)>> \notin DOMAIN fs)

\* the process was interrupted after the save and before the rename
C7_Witness ==
    /\ ~alive
    /\ pc = "w_xlsx_replace"
    /\ fs[<<"report_xlsx_tmp", Head(todo)>>].st = "complete"
    /\ <<"report_xlsx", Head(todo)>> \notin DOMAIN fs

\* C8 as stated: no final output path, of a CSV or of a workbook, ever holds
\* a partially written file.
C8_AllArtifactsAtomic ==
    \A p \in DOMAIN fs : p[1] # "report_xlsx_tmp" => fs[p].st = "complete"

\* C8 as amended: only the per-outlet workbooks go through a temporary file.
\* A partially written file is either the temporary file of the workbook being
\* saved, or the CSV the writer has open at its final path at that moment; no
\* other path, and no final workbook path, holds one.
C8_OnlyReportsAtomic ==
    \A p \in DOMAIN fs :
        fs[p].st = "partial"
            => \/ pc = "w_xlsx_saving" /\ p = <<"report_xlsx_tmp", Head(todo)>>
               \/ pc = "w_cons_body" /\ p = <<"consolidated_csv", <<>>>>
               \/ pc = "w_pdv_body" /\ p = <<"pdv_csv", Head(todo)>>
               \/ pc = "w_disc_body" /\ p = <<"discontinued_csv", Head(todo)>>

\* a reader finds half-written CSVs at final paths: the process was
\* interrupted while a per-outlet CSV was open, the consolidated one is whole
C8_Witness ==
    /\ pc = "w_pdv_body"
    /\ fs[<<"pdv_csv", Head(todo)>>].st = "partial"
    /\ fs[<<"consolidated_csv", <<>>>>].st = "complete"

\* every reordering of s
Reorderings(s) ==
    {[i \in DOMAIN s |-> s[f[i]]] : f \in Permutations(DOMAIN s)}

\* Python's (a.PDV, a.SKU) <= (b.PDV, b.SKU)
PairLeq(a, b) ==
    \/ StrLess(a.PDV, b.PDV)
    \/ (a.PDV = b.PDV /\ (a.SKU = b.SKU \/ StrLess(a.SKU, b.SKU)))

SameKey(a, b) == a.PDV = b.PDV /\ a.SKU = b.SKU

\* write_consolidated_csv was called and returned
ConsolidatedCalled ==
    /\ caller = "direct"
    /\ pc = "returned"
    /\ consolidated_path \in DOMAIN fs

\* C9 as stated: the rows of the consolidated file are the same for every
\* reordering of the records.
C9_OrderIndependent ==
    ConsolidatedCalled
        => \A perm \in Reorderings(records) :
              consolidated_rows(perm) = fs[consolidated_path].rows

\* C9 as amended: the rows are the records in ascending (PDV, SKU) order,
\* records with the same (PDV, SKU) in their input order; so the rows are the
\* same for every reordering that keeps the relative order of the records
\* sharing a (PDV, SKU), and for every reordering when no two different records
\* share one.
C9_SortedStable ==
    ConsolidatedCalled
        => LET rows == fs[consolidated_path].rows
           IN  /\ fs[consolidated_path].st = "complete"
               /\ SameElements(rows, records)
               /\ \A i, j \in DOMAIN rows : i < j => PairLeq(rows[i], rows[j])
               /\ \A i \in DOMAIN records :
                     SelectSeq(rows, LAMBDA r : SameKey(r, records[i]))
                        = SelectSeq(records, LAMBDA r : SameKey(r, records[i]))
               /\ \A perm \in Reorderings(records) :
                     (\A i \in DOMAIN records :
                         SelectSeq(perm, LAMBDA r : SameKey(r, records[i]))
                            = SelectSeq(records, LAMBDA r : SameKey(r, records[i])))
                        => consolidated_rows(perm) = rows

\* three records, two of them different with the same (PDV, SKU), and the sort
\* moved a record
C9_Witness ==
    /\ ConsolidatedCalled
    /\ Len(records) = 3
    /\ fs[consolidated_path].rows # records
    /\ \E i, j \in DOMAIN records :
          SameKey(records[i], records[j]) /\ records[i] # records[j]

\* write_csvs_by_pdv was called and returned
ByPdvCalled ==
    /\ caller = "direct"
    /\ pc = "returned"
    /\ "por_pdv" \in dirs

\* the per-outlet CSVs that hold rec
FilesOf(rec) ==
    {p \in DOMAIN fs : p[1] = "pdv_csv" /\ Count(fs[p].rows, rec) > 0}

\* C10 as stated: a record of outlet "Loja 01" and one of outlet "Loja-01"
\* are in the same per-outlet file; a record with a blank outlet is in the
\* file of the sentinel key.
C10_SpaceAndHyphenSameFile ==
    ByPdvCalled
        => \A i, j \in DOMAIN records :
              /\ (records[i].PDV = s_Loja_sp_01 /\ records[j].PDV = s_Loja_hy_01
                    => FilesOf(records[i]) = FilesOf(records[j]))
              /\ (Strip(records[i].PDV) = <<>>
                    => FilesOf(records[i]) = {<<"pdv_csv", s_SEM_PDV>>})

\* C10 as amended: "Loja 01" and "Loja_01" sanitize to the key "Loja_01" and
\* their records are in that one file; "Loja-01" keeps its hyphen, so its
\* records are in another file, the one of key "Loja-01"; a record with a
\* blank outlet is in the file of the sentinel key SEM_PDV.
C10_HyphenKept ==
    ByPdvCalled
        => \A i \in DOMAIN records :
              /\ (records[i].PDV \in {s_Loja_sp_01, s_Loja_us_01}
                    => FilesOf(records[i]) = {<<"pdv_csv", s_Loja_us_01>>})
              /\ (records[i].PDV = s_Loja_hy_01
                    => FilesOf(records[i]) = {<<"pdv_csv", s_Loja_hy_01>>})
              /\ (Strip(records[i].PDV) = <<>>
                    => FilesOf(records[i]) = {<<"pdv_csv", s_SEM_PDV>>})

\* the three outlets "Loja 01", "Loja-01" and blank written by one call
C10_Witness ==
    /\ ByPdvCalled
    /\ \E i, j, k \in DOMAIN records :
          /\ records[i].PDV = s_Loja_sp_01
          /\ records[j].PDV = s_Loja_hy_01
          /\ Strip(records[k].PDV) = <<>>
    /\ Cardinality({p \in DOMAIN fs : p[1] = "pdv_csv"}) = 3

\* the k-th smallest of a set of numbers
NthOf(S, k) == CHOOSE x \in S : Cardinality({y \in S : y < x}) = k - 1

\* the expected sheets the selected workbook has
SheetsOf(b) == {expected_sheets[k] : k \in DOMAIN expected_sheets} \cap DOMAIN b

\* the rows at or after the start row whose SKU (column A) and PDV (column I)
\* are both non-empty once normalized
ValidRows(ws) ==
    {r \in start_row(ws)..Len(ws) :
        _clean_str(ws[r].A) # <<>> /\ _clean_str(ws[r].I) # <<>>}

\* the record the claim expects of a valid row
ActiveOf(row, marca) ==
    [PDV |-> _clean_str(row.I), SKU |-> _clean_str(row.A),
     DESCRICAO |-> _clean_str(row.C), MARCA |-> marca,
     CURVA |-> _clean_str(row.E), ESTOQUE_ATUAL |-> _clean_str(row.J)]

\* recs holds, sheet by sheet, one record for each valid row and no other
OnePerValidRow(recs, view) ==
    /\ \A i \in DOMAIN recs : recs[i].MARCA \in SheetsOf(view)
    /\ \A m \in SheetsOf(view) :
          LET got == SelectSeq(recs, LAMBDA rec : rec.MARCA = m)
              rows == ValidRows(view[m])
          IN  /\ Len(got) = Cardinality(rows)
              /\ \A k \in DOMAIN got : got[k] = ActiveOf(view[m][NthOf(rows, k)], m)

\* C11: every sheet row at or after the start row gives exactly one active
\* record when its normalized SKU and PDV are both non-empty and none
\* otherwise; the record carries the sheet label as MARCA and the empty string
\* for an empty DESCRICAO, CURVA or ESTOQUE_ATUAL; no record ever has an
\* empty SKU or PDV.
C11_OneRecordPerValidRow ==
    /\ (pc = "extract_disc1" => OnePerValidRow(records, open_workbook(book, TRUE)))
    /\ (pc = "extract_disc2" => OnePerValidRow(records, open_workbook(book, FALSE)))
    /\ \A i \in DOMAIN records :
          /\ records[i].SKU # <<>> /\ records[i].PDV # <<>>
          /\ \A f \in {"DESCRICAO", "CURVA", "ESTOQUE_ATUAL"} : records[i][f] # NoneV

\* a row with a SKU and no PDV gave nothing, an empty row gave nothing, and
\* the row with both gave a record with the empty string as DESCRICAO
C11_Witness ==
    /\ pc = "extract_disc1"
    /\ \E m \in DOMAIN book :
          /\ book[m] \in {<<SkuOnlyRow, ActiveRow>>, <<BlankRow, ActiveRow>>}
          /\ records = << [PDV |-> s_Loja_sp_01, SKU |-> <<"2">>, DESCRICAO |-> <<>>,
                           MARCA |-> m, CURVA |-> <<"A">>,
                           ESTOQUE_ATUAL |-> <<"5">>] >>

HeaderCols == {"A", "C", "E", "I", "J"}

\* at least two of the five normalized cells are header words, whatever their
\* case
IsHeaderLike(row) ==
    Cardinality({col \in HeaderCols :
                    Lower(Strip(_clean_str(row[col]))) \in _HEADER_TOKENS}) >= 2

\* rows 1..min(row count, scan limit)
ScanWindow(ws) == 1..(IF Len(ws) < search_limit THEN Len(ws) ELSE search_limit)

\* recs holds one record for each valid row of ws from row first on
StartsAt(recs, ws, marca, first) ==
    LET rows == {r \in first..Len(ws) :
                    _clean_str(ws[r].A) # <<>> /\ _clean_str(ws[r].I) # <<>>}
    IN  /\ Len(recs) = Cardinality(rows)
        /\ \A k \in DOMAIN recs : recs[k] = ActiveOf(ws[NthOf(rows, k)], marca)

\* the header row found is the first header-like row of the window, and the
\* records start right after it, or at row 1 when the window has none
HeaderThenData(recs, view) ==
    \A m \in SheetsOf(view) :
        LET ws == view[m]
            r == find_header_row(ws)
            like == {q \in ScanWindow(ws) : IsHeaderLike(ws[q])}
            got == SelectSeq(recs, LAMBDA rec : rec.MARCA = m)
        IN  /\ (like = {} => r = 0 /\ StartsAt(got, ws, m, 1))
            /\ (like # {} => /\ r \in like
                              /\ \A q \in like : r <= q
                              /\ StartsAt(got, ws, m, r + 1))

\* C12: find_header_row returns the smallest row of 1..min(row count, 200)
\* with at least two of its normalized cells A, C, E, I, J in the header
\* vocabulary, case ignored, and None when the window has no such row;
\* extraction starts at the row after it, and at row 1 when it is None.
C12_EarliestHeaderInWindow ==
    /\ (pc = "extract_disc1" => HeaderThenData(records, open_workbook(book, TRUE)))
    /\ (pc = "extract_disc2" => HeaderThenData(records, open_workbook(book, FALSE)))

\* two header rows at rows 200 and 201: the first, the last row of the
\* window, is the header and the second is read as data
C12_Witness ==
    /\ pc = "extract_disc1"
    /\ book = [name \in {"EUD"} |-> PadRows(search_limit - 1) \o <<HeaderRow, HeaderRow>>]
    /\ find_header_row(open_workbook(book, TRUE)["EUD"]) = search_limit
    /\ records = << [PDV |-> <<"P", "D", "V">>, SKU |-> <<"S", "K", "U">>,
                     DESCRICAO |-> <<>>, MARCA |-> "EUD", CURVA |-> <<>>,
                     ESTOQUE_ATUAL |-> <<>>] >>

\* the phase cell (column F) trimmed and lower-cased holds the marker
PhaseMarked(row) ==
    row.F # NoneV /\ Contains(Lower(Strip(row.F)), s_descontinuado)

\* the rows at or after the start row that are valid and marked
MarkedRows(ws) == {r \in ValidRows(ws) : PhaseMarked(ws[r])}

\* the discontinued record the claim expects of such a row
DiscontinuedOf(row, marca) ==
    [PDV |-> _clean_str(row.I), SKU |-> _clean_str(row.A),
     SKU_PARA |-> _clean_str(row.B), DESCRICAO |-> _clean_str(row.C),
     ESTOQUE_ATUAL |-> _clean_str(row.J), FASES |-> _clean_str(row.F),
     MARCA |-> marca]

\* recs holds, sheet by sheet, one record for each valid marked row and no
\* other
OnePerMarkedRow(recs, view) ==
    /\ \A i \in DOMAIN recs : recs[i].MARCA \in SheetsOf(view)
    /\ \A m \in SheetsOf(view) :
          LET got == SelectSeq(recs, LAMBDA rec : rec.MARCA = m)
              rows == MarkedRows(view[m])
          IN  /\ Len(got) = Cardinality(rows)
              /\ \A k \in DOMAIN got :
                    got[k] = DiscontinuedOf(view[m][NthOf(rows, k)], m)

s_Descontinuado_padded ==
    <<" ", "D", "e", "s", "c", "o", "n", "t", "i", "n", "u", "a", "d", "o", " ">>

s_Ativo == <<"A", "t", "i", "v", "o">>

\* C13: every sheet row at or after the start row gives a discontinued record
\* exactly when its normalized SKU and PDV are non-empty and its phase cell,
\* trimmed and lower-cased, contains "descontinuado"; the phase
\* " Descontinuado " is accepted, the phase "Ativo" is rejected.
C13_PhaseFilter ==
    /\ (pc = "close1" => OnePerMarkedRow(discontinued, open_workbook(book, TRUE)))
    /\ (pc = "close2" => OnePerMarkedRow(discontinued, open_workbook(book, FALSE)))
    /\ (pc = "close1"
            => \A m \in SheetsOf(book) : \A r \in ValidRows(open_workbook(book, TRUE)[m]) :
                  /\ (book[m][r].F = Lit(s_Descontinuado_padded)
                        => \E i \in DOMAIN discontinued :
                              discontinued[i] = DiscontinuedOf(open_workbook(book, TRUE)[m][r], m))
                  /\ (book[m][r].F = Lit(s_Ativo)
                        => \A i \in DOMAIN discontinued :
                              discontinued[i].SKU # _clean_str(book[m][r].A.c)))

\* a sheet with a row of phase "Ativo" and one of phase " Descontinuado ":
\* the second one alone is a discontinued record
C13_Witness ==
    /\ pc = "close1"
    /\ \E m \in DOMAIN book : book[m] = <<ActiveRow, DiscontinuedRow>>
    /\ Len(records) = 2
    /\ Len(discontinued) = 1
    /\ discontinued[1].SKU = <<"1">>
    /\ discontinued[1].FASES = <<"D", "e", "s", "c", "o", "n", "t", "i", "n", "u", "a", "d", "o">>

ExtractionPcs1 == {"open1", "extract1", "extract_disc1", "close1"}

ExtractionPcs2 == {"open2", "extract2", "extract_disc2", "close2", "check"}

ByPdvPcs == {"w_pdv", "w_pdv_open", "w_pdv_body"}

DiscontinuedPcs == {"w_disc", "w_disc_open", "w_disc_body"}

ReportPcs == {"w_xlsx", "w_xlsx_save", "w_xlsx_saving", "w_xlsx_replace"}

\* the place of a statement in the sequence as the specification words it:
\* locate, pass 1, pass 2, consolidated, per-outlet flat files of both
\* variants, workbooks, archive
StageAsStated(p) ==
    IF p = "locate" THEN 1
    ELSE IF p \in ExtractionPcs1 THEN 2
    ELSE IF p \in ExtractionPcs2 THEN 3
    ELSE IF p \in {"w_cons", "w_cons_body"} THEN 4
    ELSE IF p \in ByPdvPcs \cup DiscontinuedPcs THEN 5
    ELSE IF p \in ReportPcs THEN 6
    ELSE IF p = "archive" THEN 7
    ELSE 8

\* the same with the discontinued flat files after the workbooks
StageInCode(p) ==
    IF p \in DiscontinuedPcs THEN 7
    ELSE IF p = "archive" THEN 8
    ELSE IF p \in {"done", "returned"} THEN 9
    ELSE StageAsStated(p)

Workbooks(files) == {p \in DOMAIN files : p[1] \in {"report_xlsx", "report_xlsx_tmp"}}

\* the per-outlet flat files of the given kinds that a step created or changed
FlatsWritten(files, files2, kinds) ==
    {p \in DOMAIN files2 : p[1] \in kinds /\ (p \notin DOMAIN files \/ files2[p] # files[p])}

\* C14 as stated: the steps run in the order locate, pass 1, optional pass 2,
\* consolidated file, per-outlet flat files (active and discontinued),
\* workbooks, archive, and no per-outlet flat file is written once a workbook
\* has been written.
C14_FlatsBeforeWorkbooks ==
    [][ /\ StageAsStated(pc') >= StageAsStated(pc)
        /\ (Workbooks(fs) # {}
              => FlatsWritten(fs, fs', {"pdv_csv", "discontinued_csv"}) = {}) ]_vars

\* C14 as amended: the order is locate, pass 1, optional pass 2, consolidated
\* file, active per-outlet flat files, workbooks, discontinued per-outlet flat
\* files, archive. A step starts only when the one before it has finished (no
\* file is half written then); no active flat file is written once a workbook
\* has been written; a discontinued flat file is written only when the
\* workbooks of all outlets are in place.
C14_DiscontinuedAfterWorkbooks ==
    [][ /\ StageInCode(pc') >= StageInCode(pc)
        /\ (StageInCode(pc') > StageInCode(pc)
              => \A p \in DOMAIN fs' :
                    fs'[p].st = "complete" /\ p[1] # "report_xlsx_tmp")
        /\ (Workbooks(fs) # {} => FlatsWritten(fs, fs', {"pdv_csv"}) = {})
        /\ (FlatsWritten(fs, fs', {"discontinued_csv"}) # {}
              => {p[2] : p \in {q \in DOMAIN fs : q[1] = "report_xlsx"}}
                    = group_keys(records) \cup group_keys(discontinued)) ]_vars

\* a discontinued flat file is being written with the workbooks and the
\* active flat files already there
C14_Witness ==
    /\ pc = "w_disc_body"
    /\ alive
    /\ fs[<<"discontinued_csv", Head(todo)>>].st = "partial"
    /\ \E p \in DOMAIN fs : p[1] = "report_xlsx" /\ fs[p].st = "complete"
    /\ \E p \in DOMAIN fs : p[1] = "pdv_csv" /\ fs[p].st = "complete"

\* the paths a run writes for its two record lists
ExpectedPaths(recs, disc) ==
    {consolidated_path}
        \cup {<<"pdv_csv", k>> : k \in group_keys(recs)}
        \cup {<<"report_xlsx", k>> : k \in group_keys(recs) \cup group_keys(disc)}
        \cup {<<"discontinued_csv", k>> : k \in group_keys(disc)}

\* every emission step has completed: all the files are there, whole, and
\* no temporary file is left
EmissionComplete ==
    /\ DOMAIN fs = ExpectedPaths(records, discontinued)
    /\ \A p \in DOMAIN fs : fs[p].st = "complete"

\* C15: archive_xlsx is attempted only when every emission step has
\* completed; the attempt, failed or not, leaves every written output as it
\* is and the run reports success; when the move fails the input file stays
\* in the input directory.
C15_ArchiveAfterEmission ==
    [][ (archiveCalled' /\ ~archiveCalled)
            => /\ pc = "archive"
               /\ alive
               /\ records # <<>>
               /\ EmissionComplete
               /\ fs' = fs
               /\ dirs' = dirs
               /\ ret' = "True"
               /\ outcome' = "success"
               /\ (xlsx \notin archived' => xlsx \in inputDir' /\ archived' = archived)
               /\ (xlsx \in archived' => xlsx \notin inputDir') ]_vars

\* the move failed: the run has returned True, the outputs are whole and the
\* input file is still in the input directory
C15_Witness ==
    /\ pc = "done"
    /\ archiveCalled
    /\ archived = {}
    /\ xlsx \in inputDir
    /\ ret = "True"
    /\ EmissionComplete
    /\ discontinued # <<>>

\* C16: write_consolidated_csv called with no record raises before it creates
\* or truncates any file, so no consolidated file without rows ever exists;
\* and process_latest never reaches its emission with an empty active list.
C16_EmptyNeverWritten ==
    /\ (caller = "pipeline" /\ pc \in EmissionPcs => records # <<>>)
    /\ (caller = "pipeline" /\ pc = "done" /\ fs # <<>> => records # <<>>)
    /\ (caller = "direct" /\ pc = "done"
            => outcome = "exception" /\ ret = "none" /\ records = <<>> /\ fs = <<>>)
    /\ (caller = "direct" /\ records = <<>> => pc # "w_cons_body")
    /\ (consolidated_path \in DOMAIN fs
            => /\ records # <<>>
               /\ (fs[consolidated_path].st = "complete"
                     => Len(fs[consolidated_path].rows) = Len(records)))

\* the call with no record has raised and there is no file
C16_Witness ==
    /\ caller = "direct"
    /\ records = <<>>
    /\ pc = "done"
    /\ outcome = "exception"
    /\ consolidated_path \notin DOMAIN fs

\* write_discontinued_csvs_by_pdv was called and returned
DiscontinuedCalled ==
    /\ caller = "direct"
    /\ pc = "returned"
    /\ "descontinuados" \in dirs

\* the files of one kind
FilesOfKind(kind) == {p \in DOMAIN fs : p[1] = kind}

\* the files of one kind are the partition of recs by sanitized PDV: one file
\* for each key, named by the key alone, every record in the file of its key
\* and in no other, the rows of a file in ascending SKU order
PartitionedBySanitizedPdv(kind, recs) ==
    /\ FilesOfKind(kind) = {<<kind, sanitize_pdv(recs[i].PDV)>> : i \in DOMAIN recs}
    /\ \A p \in FilesOfKind(kind) :
          /\ fs[p].st = "complete"
          /\ \A k \in DOMAIN fs[p].rows :
                /\ sanitize_pdv(fs[p].rows[k].PDV) = p[2]
                /\ Count(fs[p].rows, fs[p].rows[k]) = Count(recs, fs[p].rows[k])
          /\ \A j, k \in DOMAIN fs[p].rows :
                j < k => ~StrLess(fs[p].rows[k].SKU, fs[p].rows[j].SKU)
    /\ \A i \in DOMAIN recs :
          {p \in FilesOfKind(kind) : Count(fs[p].rows, recs[i]) > 0}
              = {<<kind, sanitize_pdv(recs[i].PDV)>>}

\* while a writer loops, the keys still to write ascend and the files written
\* so far have smaller keys
AscendingKeyOrder(kind) ==
    /\ \A j, k \in DOMAIN todo : j < k => StrLess(todo[j], todo[k])
    /\ \A p \in FilesOfKind(kind) : p[2] # Head(todo) => StrLess(p[2], Head(todo))

\* C17: write_csvs_by_pdv and write_discontinued_csvs_by_pdv partition their
\* input by sanitized PDV key: every record is in exactly one per-outlet file,
\* the rows of a file are in ascending SKU string order, the files are made
\* in ascending key order under a name that depends on the key (and the date
\* stamp) alone; with an empty discontinued list no discontinued file and no
\* discontinued directory is made.
C17_PartitionByOutlet ==
    /\ (ByPdvCalled => PartitionedBySanitizedPdv("pdv_csv", records))
    /\ (DiscontinuedCalled => PartitionedBySanitizedPdv("discontinued_csv", discontinued))
    /\ (pc \in {"w_pdv_open", "w_pdv_body"} => AscendingKeyOrder("pdv_csv"))
    /\ (pc \in {"w_disc_open", "w_disc_body"} => AscendingKeyOrder("discontinued_csv"))
    /\ (discontinued = <<>>
            => FilesOfKind("discontinued_csv") = {} /\ "descontinuados" \notin dirs)
    /\ (records = <<>> => FilesOfKind("pdv_csv") = {} /\ "por_pdv" \notin dirs)

\* two outlets, one of them with two records that the SKU order swaps
C17_Witness ==
    /\ DiscontinuedCalled
    /\ discontinued = << DiscRec(s_Loja_hy_01, <<"2">>, "EUD"),
                          DiscRec(s_Loja_hy_01, <<"1", "0">>, "BOT") >>
    /\ fs[<<"discontinued_csv", s_Loja_hy_01>>].rows
          = << DiscRec(s_Loja_hy_01, <<"1", "0">>, "BOT"),
               DiscRec(s_Loja_hy_01, <<"2">>, "EUD") >>

\* write_reports_xlsx_by_pdv was called and returned
ReportsCalled ==
    /\ caller = "direct"
    /\ pc = "returned"
    /\ "relatorio_finalizado" \in dirs

BothSheets == {"Estoque sem Giro", "Descontinuados"}

\* the sanitized outlet keys of a list of records
OutletKeys(recs) == {sanitize_pdv(recs[i].PDV) : i \in DOMAIN recs}

\* the records of recs whose outlet has the key
OfOutlet(recs, key) == SelectSeq(recs, LAMBDA rec : sanitize_pdv(rec.PDV) = key)

\* C18: write_reports_xlsx_by_pdv makes exactly one workbook for each key of
\* the union of the sanitized outlet keys of the active and of the
\* discontinued list; every workbook has both sheets, each with its header
\* row, the discontinued one also when the outlet has no discontinued record.
C18_OneWorkbookPerOutlet ==
    ReportsCalled
        => /\ FilesOfKind("report_xlsx")
                = {<<"report_xlsx", k>> : k \in OutletKeys(records) \cup OutletKeys(discontinued)}
           /\ FilesOfKind("report_xlsx_tmp") = {}
           /\ \A p \in FilesOfKind("report_xlsx") :
                 /\ fs[p].st = "complete"
                 /\ fs[p].sheets = BothSheets
                 /\ fs[p].headers = BothSheets
                 /\ SameElements(fs[p].rows, OfOutlet(records, p[2]))
                 /\ SameElements(fs[p].drows, OfOutlet(discontinued, p[2]))

\* one outlet with active records only and one with discontinued records only
C18_Witness ==
    /\ ReportsCalled
    /\ \E p \in FilesOfKind("report_xlsx") :
          /\ fs[p].rows # <<>> /\ fs[p].drows = <<>>
          /\ "Descontinuados" \in fs[p].sheets \cap fs[p].headers
    /\ \E p \in FilesOfKind("report_xlsx") :
          /\ fs[p].rows = <<>> /\ fs[p].drows # <<>>
          /\ p[2] \notin OutletKeys(records)

Pass2Discontinued == extract_discontinued_all(open_workbook(book, FALSE))

\* once the passes are over (line 95 on): the pass whose extract_all call
\* assigned records last; the second open succeeded and line 85 did not raise
RecordsPass == IF wb2 # "none" /\ err # "extract" THEN 2 ELSE 1

\* the pass whose extract_discontinued_all call assigned discontinued last;
\* neither line 85 nor line 87 raised
DiscontinuedPass ==
    IF wb2 # "none" /\ err \notin {"extract", "discontinued"} THEN 2 ELSE 1

\* C19: when a run reaches emission, the active list and the discontinued
\* list it hands to the writers come from the same pass over the workbook,
\* also when pass 2 raised.
C19_SamePass ==
    (caller = "pipeline" /\ pc \in EmissionPcs)
        => /\ RecordsPass = DiscontinuedPass
           /\ \/ records = Pass1Active /\ discontinued = Pass1Discontinued
              \/ records = Pass2Active /\ discontinued = Pass2Discontinued

\* every discontinued record of disc was read from a row of its sheet that
\* also gave an active record of recs with the same PDV, SKU and MARCA
FromActiveRows(recs, disc, view) ==
    \A i \in DOMAIN disc :
        /\ disc[i].MARCA \in SheetsOf(view)
        /\ \E r \in DOMAIN view[disc[i].MARCA] :
              LET row == view[disc[i].MARCA][r]
              IN  /\ DiscontinuedOf(row, disc[i].MARCA) = disc[i]
                  /\ \E j \in DOMAIN recs :
                        /\ recs[j] = ActiveOf(row, disc[i].MARCA)
                        /\ recs[j].PDV = disc[i].PDV
                        /\ recs[j].SKU = disc[i].SKU
                        /\ recs[j].MARCA = disc[i].MARCA

\* the three consequences for the two lists of one pass
DiscontinuedWithinActive(recs, disc, view) ==
    /\ FromActiveRows(recs, disc, view)
    /\ OutletKeys(disc) \subseteq OutletKeys(recs)
    /\ (recs = <<>> => disc = <<>>)
    /\ Len(disc) <= Len(recs)

\* C20: within one pass over a workbook every discontinued record comes from
\* a sheet row that also gives an active record with the same PDV, SKU and
\* MARCA; so the sanitized outlet keys of the discontinued list are among
\* those of the active list, and an empty active list means an empty
\* discontinued list.
C20_DiscontinuedAmongActive ==
    /\ (pc = "close1"
            => DiscontinuedWithinActive(records, discontinued, open_workbook(book, TRUE)))
    /\ (pc = "close2"
            => DiscontinuedWithinActive(records, discontinued, open_workbook(book, FALSE)))

\* the raw-value pass read one row as an active and as a discontinued record
\* and dropped a marked row that has no SKU
C20_Witness ==
    /\ pc = "close2"
    /\ \E m \in DOMAIN book : book[m] = <<FormulaRow, PdvOnlyRow>>
    /\ Len(records) = 1
    /\ Len(discontinued) = 1
    /\ discontinued[1].SKU = <<"=", "A", "1">>
    /\ records[1].SKU = <<"=", "A", "1">>
====
